---------------------------- MODULE Spec2Model ----------------------------
(***************************************************************************)
(* A model of src/src/utils.ts: the utility functions of an OpenAPI        *)
(* request/response validation workflow.                                   *)
(*                                                                         *)
(* JavaScript values are modelled as follows.                              *)
(*   - a plain data object whose key order is irrelevant (a parameter, a   *)
(*     JSON schema) is a TLA+ record holding exactly the fields the object *)
(*     has: an absent field is absent from the record's DOMAIN;            *)
(*   - an object used as a string-keyed map whose enumeration order is     *)
(*     observable (Object.entries) is a sequence of [key, value] entries   *)
(*     with pairwise distinct keys, in insertion order;                    *)
(*   - an object that is mutated, or whose identity matters, lives in      *)
(*     `heap` and is referred to by its address.                           *)
(*                                                                         *)
(* The functions share no state, so there is one specification per group:  *)
(*   SpecParams  getParameterMap and getParametersSchema;                  *)
(*   SpecFunc    resolve, mapObject, transform, oneOrMany and inRange;     *)
(*   SpecMatch   matchSchema, called repeatedly with one errors array.     *)
(***************************************************************************)
EXTENDS Integers, Sequences, FiniteSets, TLC

VARIABLES
  args,    \* the arguments the caller is about to pass to a pure function
  heap,    \* the objects and arrays that exist, by address 1..Len(heap)
  errors,  \* the caller's `errors` array handed to every matchSchema call
  call     \* the last call made: its operation, arguments and outcome

vars == <<args, heap, errors, call>>

\* No call was made yet.
NoCall == [op |-> "none"]

(***************************************************************************)
(* Bounds of the model.                                                    *)
(***************************************************************************)
\* The longest parameter list of an operation.
MaxParams == 2
\* The longest array handed to transform and oneOrMany.
MaxItems == 3
\* inRange is applied to the numbers -MaxNumber..MaxNumber.
MaxNumber == 2
\* mapObject allocates a new object per call: calls stop at this heap size.
MaxHeap == 3
\* The matchSchema calls made with one errors array.
MaxCalls == 2

(***************************************************************************)
(* JavaScript values: primitives carry their payload, an object or array   *)
(* that lives in `heap` is a reference to its address, an array whose      *)
(* identity plays no role is a value holding its items.                    *)
(***************************************************************************)
Undefined == [t |-> "undefined"]
Str(s) == [t |-> "string", s |-> s]
Num(n) == [t |-> "number", n |-> n]
Ref(a) == [t |-> "ref", a |-> a]
Fn(f) == [t |-> "function", f |-> f]
Arr(items) == [t |-> "array", items |-> items]

\* The typeof operator.
TypeOf(v) ==
  CASE v.t \in {"ref", "array", "null"} -> "object"
    [] OTHER -> v.t

\* Array.isArray.
IsArray(v) == v.t = "array"

(***************************************************************************)
(* String-keyed maps in insertion order (Record<string, V>).               *)
(***************************************************************************)
\* {}
EmptyMap == <<>>

\* Object.keys(m), in enumeration order.
MapKeys(m) == [i \in DOMAIN m |-> m[i].key]

\* The set of own keys of m.
KeySet(m) == {m[i].key : i \in DOMAIN m}

\* m[k], for an own key k.
MapGet(m, k) == m[CHOOSE i \in DOMAIN m : m[i].key = k].value

\* m[k] = v: an existing key keeps its place and takes the new value, a new
\* key is added last.
MapSet(m, k, v) ==
  IF k \in KeySet(m)
    THEN [i \in DOMAIN m |-> IF m[i].key = k THEN [key |-> k, value |-> v] ELSE m[i]]
    ELSE Append(m, [key |-> k, value |-> v])

\* Object.entries(m).
ObjectEntries(m) == m

(***************************************************************************)
(* getParameterMap and getParametersSchema.                                *)
(***************************************************************************)
ParameterType == {"header", "query", "path", "cookie"}

\* The parameter names, locations and schemas the model draws from.  A
\* parameter may lack `in` (a reference object), `required` and `schema`.
ParameterNames == {"id", "age"}
ParameterIns == {"query", "header"}
ParameterSchemas == {[type |-> "string"]}

ParameterObjects ==
  UNION {
    [name : ParameterNames],
    [name : ParameterNames, in : ParameterIns],
    [name : ParameterNames, required : BOOLEAN],
    [name : ParameterNames, in : ParameterIns, required : BOOLEAN],
    [name : ParameterNames, schema : ParameterSchemas],
    [name : ParameterNames, in : ParameterIns, schema : ParameterSchemas],
    [name : ParameterNames, required : BOOLEAN, schema : ParameterSchemas],
    [name : ParameterNames, in : ParameterIns, required : BOOLEAN,
     schema : ParameterSchemas] }

ParameterLists == UNION {[1..n -> ParameterObjects] : n \in 0..MaxParams}

\* An operation object: its `parameters` field is optional.
Operations ==
  {[summary |-> "op"]} \cup {[summary |-> "op", parameters |-> ps] : ps \in ParameterLists}

\* The destructuring default `{parameters = []}`.
ParametersOf(operation) ==
  IF "parameters" \in DOMAIN operation THEN operation.parameters ELSE <<>>

\* A loop body with the location test left out: every parameter is stored.
ParameterStepNoInCheck(result, parameter, type) ==
  MapSet(result, parameter.name, parameter)

\* A loop body that keeps the first parameter stored under a name.
ParameterStepFirstWins(result, parameter, type) ==
  IF "in" \in DOMAIN parameter /\ parameter.in = type
       /\ parameter.name \notin KeySet(result)
    THEN MapSet(result, parameter.name, parameter)
    ELSE result

\* The body of the for loop of getParameterMap.
ParameterStep(result, parameter, type) ==
  IF "in" \in DOMAIN parameter /\ parameter.in = type
    THEN MapSet(result, parameter.name, parameter)
    ELSE result

RECURSIVE ParameterLoop(_, _, _)
ParameterLoop(parameters, type, result) ==
  IF parameters = <<>>
    THEN result
    ELSE ParameterLoop(Tail(parameters), type,
                       ParameterStep(result, Head(parameters), type))

getParameterMap(operation, type) ==
  ParameterLoop(ParametersOf(operation), type, EmptyMap)

\* {}
EmptyObject == [k \in {} |-> ""]

\* A loop body that lists every name as required.
SchemaStepAllRequired(result, entry) ==
  [result EXCEPT
     !.properties = MapSet(@, entry.key,
                           IF "schema" \in DOMAIN entry.value
                             THEN entry.value.schema ELSE EmptyObject),
     !.required = Append(@, entry.key)]

\* The body of the for loop of getParametersSchema, with the destructuring
\* defaults `required = false` and `schema = {}`.
SchemaStep(result, entry) ==
  LET name == entry.key
      parameter == entry.value
      required == IF "required" \in DOMAIN parameter THEN parameter.required ELSE FALSE
      schema == IF "schema" \in DOMAIN parameter THEN parameter.schema ELSE EmptyObject
      withProperty == [result EXCEPT !.properties = MapSet(@, name, schema)]
  IN IF required
       THEN [withProperty EXCEPT !.required = Append(@, name)]
       ELSE withProperty

RECURSIVE SchemaLoop(_, _)
SchemaLoop(entries, result) ==
  IF entries = <<>>
    THEN result
    ELSE SchemaLoop(Tail(entries), SchemaStep(result, Head(entries)))

getParametersSchema(parameters) ==
  SchemaLoop(ObjectEntries(parameters),
             [type |-> "object",
              required |-> <<>>,
              properties |-> EmptyMap,
              additionalProperties |-> TRUE])

\* The parameter maps getParametersSchema is called with directly: any map,
\* whether or not getParameterMap built it (a key need not be the name of
\* the parameter stored under it).
ParameterMaps ==
  {EmptyMap}
  \cup {<<[key |-> k, value |-> p]>> : k \in ParameterNames, p \in ParameterObjects}
  \cup {<<[key |-> k1, value |-> p1], [key |-> k2, value |-> p2]>> :
          <<k1, k2>> \in {<<"id", "age">>, <<"age", "id">>},
          <<p1, p2>> \in ParameterObjects \X ParameterObjects}

\* The arguments the caller has at hand: an operation, whose parameter map is
\* asked for by kind, or a parameter map.
ParamsCalls ==
  {[op |-> "getParameterMap", operation |-> operation] : operation \in Operations}
  \cup {[op |-> "getParametersSchema", parameters |-> parameters] :
          parameters \in ParameterMaps}

CallGetParameterMap ==
  /\ args.op = "getParameterMap"
  /\ \E type \in ParameterType :
       call' = [op |-> "getParameterMap", operation |-> args.operation,
                type |-> type,
                ret |-> getParameterMap(args.operation, type)]
  /\ UNCHANGED <<args, heap, errors>>

\* getParametersSchema applied to the map the last getParameterMap returned.
CallGetParametersSchemaOfMap ==
  /\ call.op = "getParameterMap"
  /\ call' = [op |-> "getParametersSchema", parameters |-> call.ret,
              composed |-> TRUE, operation |-> call.operation, type |-> call.type,
              ret |-> getParametersSchema(call.ret)]
  /\ UNCHANGED <<args, heap, errors>>

CallGetParametersSchema ==
  /\ args.op = "getParametersSchema"
  /\ call' = [op |-> "getParametersSchema", parameters |-> args.parameters,
              composed |-> FALSE,
              ret |-> getParametersSchema(args.parameters)]
  /\ UNCHANGED <<args, heap, errors>>

InitParams ==
  /\ args \in ParamsCalls
  /\ heap = <<>>
  /\ errors = <<>>
  /\ call = NoCall

NextParams ==
  \/ CallGetParameterMap
  \/ CallGetParametersSchemaOfMap
  \/ CallGetParametersSchema

SpecParams == InitParams /\ [][NextParams]_vars

(***************************************************************************)
(* resolve.                                                                *)
(***************************************************************************)
\* The zero-argument producers the model draws from, by what calling each
\* one does: return a value (possibly another producer) or throw.
ProducerNames == {"five", "nothing", "object", "producer", "failing"}

Invoke(f) ==
  CASE f = "five" -> [outcome |-> "returned", ret |-> Num(5)]
    [] f = "nothing" -> [outcome |-> "returned", ret |-> Undefined]
    [] f = "object" -> [outcome |-> "returned", ret |-> Ref(1)]
    [] f = "producer" -> [outcome |-> "returned", ret |-> Fn("five")]
    [] f = "failing" -> [outcome |-> "threw", thrown |-> "failure"]

Resolvables ==
  {Undefined, Num(5), Str("five"), Ref(1)} \cup {Fn(f) : f \in ProducerNames}

\* A resolve that hands a producer back instead of calling it.
resolveNeverInvokes(resolvable) ==
  [outcome |-> "returned", ret |-> resolvable, invoked |-> <<>>]

\* The outcome of resolve(resolvable) and the producers it invoked, in order.
resolve(resolvable) ==
  IF TypeOf(resolvable) = "function"
    THEN [invoked |-> <<resolvable.f>>] @@ Invoke(resolvable.f)
    ELSE [outcome |-> "returned", ret |-> resolvable, invoked |-> <<>>]

CallResolve ==
  /\ args.op = "resolve"
  /\ call' = [op |-> "resolve", resolvable |-> args.resolvable]
              @@ resolve(args.resolvable)
  /\ UNCHANGED <<args, heap, errors>>

(***************************************************************************)
(* mapObject.                                                              *)
(***************************************************************************)
\* A heap object: its own properties in enumeration order.
Object(fields) == [kind |-> "object", fields |-> fields]

\* The transform functions the model draws from: each reads its value, its
\* key or the source object, and none writes.
MapFuncs == {"increment", "keyed", "sized"}

\* func(value, key, obj) in heap h.
ApplyMapFunc(h, func, value, key, obj) ==
  CASE func = "increment" -> Num(value.n + 1)
    [] func = "keyed" -> IF key = "a" THEN value ELSE Num(value.n + 10)
    [] func = "sized" -> Num(value.n + Len(h[obj.a].fields))

\* Object.fromEntries(entries).
RECURSIVE ObjectFromEntries(_)
ObjectFromEntries(entries) ==
  IF entries = <<>>
    THEN EmptyMap
    ELSE LET last == entries[Len(entries)]
         IN MapSet(ObjectFromEntries(SubSeq(entries, 1, Len(entries) - 1)),
                   last.key, last.value)

\* A mapObject that writes the mapped values into obj itself.
mapObjectInPlace(h, obj, func) ==
  LET entries == ObjectEntries(h[obj.a].fields)
      mapped == [i \in DOMAIN entries |->
                   [key |-> entries[i].key,
                    value |-> ApplyMapFunc(h, func, entries[i].value, entries[i].key, obj)]]
  IN [heap |-> [h EXCEPT ![obj.a] = Object(mapped)], ret |-> obj]

\* mapObject(obj, func) in heap h: the heap after the call and the object
\* returned.
mapObject(h, obj, func) ==
  LET entries == ObjectEntries(h[obj.a].fields)
      mapped == [i \in DOMAIN entries |->
                   [key |-> entries[i].key,
                    value |-> ApplyMapFunc(h, func, entries[i].value, entries[i].key, obj)]]
  IN [heap |-> Append(h, Object(ObjectFromEntries(mapped))),
      ret |-> Ref(Len(h) + 1)]

\* The objects mapObject is called with.
MapSources ==
  { EmptyMap,
    <<[key |-> "a", value |-> Num(1)]>>,
    <<[key |-> "a", value |-> Num(1)], [key |-> "b", value |-> Num(2)]>>,
    <<[key |-> "b", value |-> Num(2)], [key |-> "a", value |-> Num(1)]>>,
    <<[key |-> "a", value |-> Num(2)], [key |-> "b", value |-> Num(2)]>> }

CallMapObject ==
  /\ args.op = "mapObject"
  /\ Len(heap) < MaxHeap
  /\ LET done == mapObject(heap, args.obj, args.func)
     IN /\ heap' = done.heap
        /\ call' = [op |-> "mapObject", obj |-> args.obj, func |-> args.func,
                    ret |-> done.ret]
  /\ UNCHANGED <<args, errors>>

(***************************************************************************)
(* transform and oneOrMany.                                                *)
(***************************************************************************)
\* The one-argument functions the model draws from.
UnaryFuncs == {"double", "increment", "zero"}

ApplyFunc(func, value) ==
  CASE func = "double" -> Num(value.n * 2)
    [] func = "increment" -> Num(value.n + 1)
    [] func = "zero" -> Num(0)

\* value.map(func).
ArrayMap(value, func) ==
  Arr([i \in DOMAIN value.items |-> ApplyFunc(func, value.items[i])])

Scalars == {Num(n) : n \in 0..2}

\* The values transform and oneOrMany are applied to: one scalar, or an
\* array of scalars.
OneOrManyValues ==
  Scalars \cup {Arr(items) : items \in UNION {[1..n -> Scalars] : n \in 0..MaxItems}}

\* A transform that returns an array whatever it is given.
transformAlwaysMany(value, func) ==
  IF IsArray(value) THEN ArrayMap(value, func) ELSE Arr(<<ApplyFunc(func, value)>>)

transform(value, func) ==
  IF IsArray(value) THEN ArrayMap(value, func) ELSE ApplyFunc(func, value)

\* A oneOrMany whose function treats every value as a single one.
oneOrManyAlwaysOne(func) ==
  [value \in OneOrManyValues |->
     ApplyFunc(func, IF IsArray(value) THEN Num(Len(value.items)) ELSE value)]

\* oneOrMany(func): the function it returns.
oneOrMany(func) ==
  [value \in OneOrManyValues |->
     IF IsArray(value) THEN ArrayMap(value, func) ELSE ApplyFunc(func, value)]

CallTransform ==
  /\ args.op = "transform"
  /\ call' = [op |-> "transform", value |-> args.value, func |-> args.func,
              ret |-> transform(args.value, args.func)]
  /\ UNCHANGED <<args, heap, errors>>

\* The same arguments through the curried form.
CallOneOrMany ==
  /\ args.op = "transform"
  /\ call' = [op |-> "oneOrMany", value |-> args.value, func |-> args.func,
              ret |-> oneOrMany(args.func)[args.value]]
  /\ UNCHANGED <<args, heap, errors>>

(***************************************************************************)
(* inRange.                                                                *)
(***************************************************************************)
Numbers == (-MaxNumber)..MaxNumber

\* A predicate whose upper bound is inclusive.
inRangeClosed(min, max) ==
  [value \in Numbers |-> value >= min /\ value <= max]

\* inRange(min, max): the predicate it returns.
inRange(min, max) ==
  [value \in Numbers |-> value >= min /\ value < max]

CallInRange ==
  /\ args.op = "inRange"
  /\ call' = [op |-> "inRange", min |-> args.min, max |-> args.max,
              value |-> args.value, ret |-> inRange(args.min, args.max)[args.value]]
  /\ UNCHANGED <<args, heap, errors>>

\* The calls of the functional helpers, each with the heap it is made in.
FuncCalls ==
  UNION {
    {[args |-> [op |-> "resolve", resolvable |-> r],
      heap |-> <<Object(EmptyMap)>>] : r \in Resolvables},
    {[args |-> [op |-> "mapObject", obj |-> Ref(1), func |-> f],
      heap |-> <<Object(m)>>] : m \in MapSources, f \in MapFuncs},
    {[args |-> [op |-> "transform", value |-> v, func |-> f],
      heap |-> <<>>] : v \in OneOrManyValues, f \in UnaryFuncs},
    {[args |-> [op |-> "inRange", min |-> lo, max |-> hi, value |-> v],
      heap |-> <<>>] : lo \in Numbers, hi \in Numbers, v \in Numbers} }

InitFunc ==
  /\ \E c \in FuncCalls : args = c.args /\ heap = c.heap
  /\ errors = <<>>
  /\ call = NoCall

NextFunc ==
  \/ CallResolve
  \/ CallMapObject
  \/ CallTransform
  \/ CallOneOrMany
  \/ CallInRange

SpecFunc == InitFunc /\ [][NextFunc]_vars

(***************************************************************************)
(* cloneObject: JSON.parse(JSON.stringify(source)).                        *)
(*                                                                         *)
(* A JSON text is modelled by the tree it denotes.  The heaps of the model *)
(* hold no cyclic structure.                                               *)
(***************************************************************************)
\* A heap array: its items in index order.
Array(items) == [kind |-> "array", items |-> items]

Null == [t |-> "null"]

\* JSON.stringify returned undefined: there is no text.
NoText == [j |-> "none"]

\* JSON.stringify(v) in heap h.  undefined and functions have no text; as
\* an object member they are left out, as an array item they become null.
RECURSIVE JsonStringify(_, _)
JsonStringify(h, v) ==
  CASE v.t \in {"undefined", "function"} -> NoText
    [] v.t = "string" -> [j |-> "string", s |-> v.s]
    [] v.t = "number" -> [j |-> "number", n |-> v.n]
    [] v.t = "null" -> [j |-> "null"]
    [] v.t = "ref" ->
         LET o == h[v.a]
         IN IF o.kind = "array"
              THEN [j |-> "array",
                    items |-> [i \in DOMAIN o.items |->
                                 LET text == JsonStringify(h, o.items[i])
                                 IN IF text = NoText THEN [j |-> "null"] ELSE text]]
              ELSE [j |-> "object",
                    members |->
                      LET all == [i \in DOMAIN o.fields |->
                                    [key |-> o.fields[i].key,
                                     value |-> JsonStringify(h, o.fields[i].value)]]
                      IN SelectSeq(all, LAMBDA m : m.value # NoText)]

\* The value a JSON text denotes, built from new objects added to heap h:
\* [heap, ret].
RECURSIVE JsonBuild(_, _)
JsonBuild(h, text) ==
  CASE text.j = "string" -> [heap |-> h, ret |-> Str(text.s)]
    [] text.j = "number" -> [heap |-> h, ret |-> Num(text.n)]
    [] text.j = "null" -> [heap |-> h, ret |-> Null]
    [] text.j = "array" ->
         LET Items[i \in 0..Len(text.items)] ==
               IF i = 0
                 THEN [heap |-> h, vals |-> <<>>]
                 ELSE LET item == JsonBuild(Items[i - 1].heap, text.items[i])
                      IN [heap |-> item.heap,
                          vals |-> Append(Items[i - 1].vals, item.ret)]
             built == Items[Len(text.items)]
         IN [heap |-> Append(built.heap, Array(built.vals)),
             ret |-> Ref(Len(built.heap) + 1)]
    [] text.j = "object" ->
         LET Members[i \in 0..Len(text.members)] ==
               IF i = 0
                 THEN [heap |-> h, fields |-> EmptyMap]
                 ELSE LET member == JsonBuild(Members[i - 1].heap,
                                              text.members[i].value)
                      IN [heap |-> member.heap,
                          fields |-> MapSet(Members[i - 1].fields,
                                            text.members[i].key, member.ret)]
             built == Members[Len(text.members)]
         IN [heap |-> Append(built.heap, Object(built.fields)),
             ret |-> Ref(Len(built.heap) + 1)]

\* JSON.parse(text): undefined is read as the text "undefined", which is no
\* JSON, and the parse throws.
JsonParse(h, text) ==
  IF text = NoText
    THEN [outcome |-> "threw", thrown |-> "SyntaxError", heap |-> h]
    ELSE [outcome |-> "returned"] @@ JsonBuild(h, text)

\* A cloneObject that hands the source itself back.
cloneObjectShared(h, source) ==
  [outcome |-> "returned", heap |-> h, ret |-> source]

\* A cloneObject that turns a source without JSON text into undefined.
cloneObjectLenient(h, source) ==
  IF JsonStringify(h, source) = NoText
    THEN [outcome |-> "returned", heap |-> h, ret |-> Undefined]
    ELSE JsonParse(h, JsonStringify(h, source))

cloneObject(h, source) == JsonParse(h, JsonStringify(h, source))

(***************************************************************************)
(* The validation engine as matchSchema uses it: the keywords `type`,      *)
(* `properties` and `items`, with type coercion.                           *)
(***************************************************************************)
\* The types a schema may name.
SimpleTypes == {"array", "boolean", "integer", "null", "number", "object", "string"}

\* compile(schema) succeeds: every `type` names a type, in the schema and in
\* the schemas under `properties` and `items`.
RECURSIVE SchemaCompiles(_)
SchemaCompiles(schema) ==
  /\ "type" \in DOMAIN schema => schema.type \in SimpleTypes
  /\ "properties" \in DOMAIN schema =>
       \A i \in DOMAIN schema.properties : SchemaCompiles(schema.properties[i].value)
  /\ "items" \in DOMAIN schema => SchemaCompiles(schema.items)

\* The strings that read as a number, and the number each reads as.
NumericStrings == {"5", "7"}
StringToNumber(s) == CASE s = "5" -> 5 [] s = "7" -> 7
NumberToString(n) == ToString(n)

IsArrayRef(h, d) == d.t = "ref" /\ h[d.a].kind = "array"
IsObjectRef(h, d) == d.t = "ref" /\ h[d.a].kind = "object"

\* The data is of the type named.
TypeMatches(h, d, type) ==
  CASE type = "string" -> d.t = "string"
    [] type \in {"integer", "number"} -> d.t = "number"
    [] type = "array" -> IsArrayRef(h, d)
    [] type = "object" -> IsObjectRef(h, d)
    [] type = "null" -> d.t = "null"
    [] OTHER -> FALSE

\* Where the data being validated is held: nowhere (the root), under a key
\* of an object, or at an index of an array.
NoParent == [kind |-> "none"]
PropertyOf(a, key) == [kind |-> "property", a |-> a, key |-> key]
ItemOf(a, i) == [kind |-> "item", a |-> a, i |-> i]

\* parentData[parentDataProperty] = v, when there is a parent.
AssignParent(h, parent, v) ==
  CASE parent.kind = "none" -> h
    [] parent.kind = "property" ->
         [h EXCEPT ![parent.a].fields = MapSet(@, parent.key, v)]
    [] parent.kind = "item" ->
         [h EXCEPT ![parent.a].items[parent.i] = v]

\* Coercion of data d to a type it is not of, under coerceTypes 'array':
\* an array of one item is first replaced by that item; then a number
\* becomes a string, a numeric string a number, a scalar a one-item array.
\* [ok, heap, data].
CoerceType(h, d, type) ==
  LET unwrap == IsArrayRef(h, d) /\ Len(h[d.a].items) = 1
      item == IF unwrap THEN h[d.a].items[1] ELSE d
      failed == [ok |-> FALSE, heap |-> h, data |-> d]
  IN IF unwrap /\ TypeMatches(h, item, type)
       THEN [ok |-> TRUE, heap |-> h, data |-> item]
     ELSE IF type = "string" /\ item.t = "number"
       THEN [ok |-> TRUE, heap |-> h, data |-> Str(NumberToString(item.n))]
     ELSE IF type \in {"integer", "number"} /\ item.t = "string"
               /\ item.s \in NumericStrings
       THEN [ok |-> TRUE, heap |-> h, data |-> Num(StringToNumber(item.s))]
     ELSE IF type = "array" /\ item.t \in {"string", "number"}
       THEN [ok |-> TRUE, heap |-> Append(h, Array(<<item>>)), data |-> Ref(Len(h) + 1)]
     ELSE failed

\* The error record of a failed `type`.
TypeError(path, type) ==
  [keyword |-> "type", dataPath |-> path, params |-> [type |-> type]]

\* The option allErrors: collect every error instead of stopping at the first.
AllErrors(opts) == "allErrors" \in DOMAIN opts /\ opts.allErrors

\* The keyword `type` on data d held at `parent`: data of the type passes,
\* other data is coerced when coerceTypes is on, and the coerced value is
\* stored in the parent.  [ok, heap, data, errors].
CheckType(h, opts, type, d, parent, path) ==
  IF TypeMatches(h, d, type)
    THEN [ok |-> TRUE, heap |-> h, data |-> d, errors |-> <<>>]
    ELSE LET coerced == IF opts.coerceTypes = "array"
                          THEN CoerceType(h, d, type)
                          ELSE [ok |-> FALSE, heap |-> h, data |-> d]
         IN IF coerced.ok
              THEN [ok |-> TRUE, heap |-> AssignParent(coerced.heap, parent, coerced.data),
                    data |-> coerced.data, errors |-> <<>>]
              ELSE [ok |-> FALSE, heap |-> h, data |-> d,
                    errors |-> <<TypeError(path, type)>>]

\* validate(data) for a compiled schema: [heap, errors].  A failed `type`
\* skips the other keywords of its schema; without allErrors validation
\* stops at the first error.
RECURSIVE Check(_, _, _, _, _, _)
Check(h, opts, schema, d, parent, path) ==
  LET typed == IF "type" \in DOMAIN schema
                 THEN CheckType(h, opts, schema.type, d, parent, path)
                 ELSE [ok |-> TRUE, heap |-> h, data |-> d, errors |-> <<>>]
      h1 == typed.heap
      d1 == typed.data
  IN IF ~typed.ok
       THEN [heap |-> h, errors |-> typed.errors]
       ELSE IF IsObjectRef(h1, d1) /\ "properties" \in DOMAIN schema
         THEN LET props == schema.properties
                  Props[i \in 0..Len(props)] ==
                    IF i = 0
                      THEN [heap |-> h1, errors |-> <<>>]
                      ELSE LET before == Props[i - 1]
                               key == props[i].key
                               fields == before.heap[d1.a].fields
                           IN IF (before.errors # <<>> /\ ~AllErrors(opts))
                                   \/ key \notin KeySet(fields)
                                THEN before
                                ELSE LET sub == Check(before.heap, opts, props[i].value,
                                                      MapGet(fields, key),
                                                      PropertyOf(d1.a, key),
                                                      path \o "/" \o key)
                                     IN [heap |-> sub.heap,
                                         errors |-> before.errors \o sub.errors]
              IN Props[Len(props)]
       ELSE IF IsArrayRef(h1, d1) /\ "items" \in DOMAIN schema
         THEN LET n == Len(h1[d1.a].items)
                  Items[i \in 0..n] ==
                    IF i = 0
                      THEN [heap |-> h1, errors |-> <<>>]
                      ELSE LET before == Items[i - 1]
                           IN IF before.errors # <<>> /\ ~AllErrors(opts)
                                THEN before
                                ELSE LET sub == Check(before.heap, opts, schema.items,
                                                      before.heap[d1.a].items[i],
                                                      ItemOf(d1.a, i),
                                                      path \o "/" \o ToString(i - 1))
                                     IN [heap |-> sub.heap,
                                         errors |-> before.errors \o sub.errors]
              IN Items[n]
       ELSE [heap |-> h1, errors |-> <<>>]

\* validate(result) and the validate.errors it leaves: <<>> stands for null,
\* which is what a validation without errors leaves.
Validate(h, opts, schema, result) == Check(h, opts, schema, result, NoParent, "")

(***************************************************************************)
(* matchSchema.                                                            *)
(***************************************************************************)
\* {...ajvOptions}: undefined spreads to nothing.
Spread(ajvOptions) == IF ajvOptions = Undefined THEN EmptyObject ELSE ajvOptions

\* {...ajvOptions, coerceTypes: 'array'}: the later key wins.
EngineOptions(ajvOptions) == [coerceTypes |-> "array"] @@ Spread(ajvOptions)

\* An errors array that is replaced by the last call's errors.
PushErrorsReplacing(errs, validateErrors) == validateErrors

\* if (validate.errors) errors.push(...validate.errors)
PushErrors(errs, validateErrors) ==
  IF validateErrors # <<>> THEN errs \o validateErrors ELSE errs

\* matchSchema(source, schema, errors, ajvOptions) in heap h with the errors
\* array holding errs: how the call ends, the heap and the errors array
\* after it, and the validate.errors of the call.
matchSchema(h, source, schema, errs, ajvOptions) ==
  LET result == cloneObject(h, source)
  IN IF result.outcome = "threw"
       THEN [outcome |-> "threw", thrown |-> result.thrown, heap |-> h,
             errors |-> errs, validateErrors |-> <<>>]
     ELSE IF ~SchemaCompiles(schema)
       THEN [outcome |-> "threw", thrown |-> "schema is invalid",
             heap |-> result.heap, errors |-> errs, validateErrors |-> <<>>]
     ELSE LET validated == Validate(result.heap, EngineOptions(ajvOptions), schema,
                                    result.ret)
          IN [outcome |-> "returned", ret |-> result.ret, heap |-> validated.heap,
              errors |-> PushErrors(errs, validated.errors),
              validateErrors |-> validated.errors]

\* The caller's source objects, at address 1 (and 2 for a nested array).
SourceHeaps ==
  { <<Object(<<[key |-> "count", value |-> Str("5")]>>)>>,
    <<Object(<<[key |-> "count", value |-> Str("bad")]>>)>>,
    <<Object(<<[key |-> "count", value |-> Num(5)]>>)>>,
    <<Object(<<[key |-> "count", value |-> Ref(2)]>>), Array(<<Str("5")>>)>>,
    <<Object(<<[key |-> "count", value |-> Ref(2)]>>), Array(<<Str("5"), Str("bad")>>)>>,
    <<Object(<<[key |-> "count", value |-> Str("bad")],
               [key |-> "tag", value |-> Str("bad")]>>)>>,
    <<Object(<<[key |-> "count", value |-> Undefined],
               [key |-> "tag", value |-> Str("7")]>>)>> }

\* The sources a call is given: the caller's object, or undefined.
Sources == {Ref(1), Undefined}

PropertiesSchema(properties) == [type |-> "object", properties |-> properties]

\* The schemas a call is given; the last names no type the engine knows.
Schemas ==
  { EmptyObject,
    PropertiesSchema(<<[key |-> "count", value |-> [type |-> "integer"]]>>),
    PropertiesSchema(<<[key |-> "count", value |-> [type |-> "string"]]>>),
    PropertiesSchema(<<[key |-> "count",
                        value |-> [type |-> "array", items |-> [type |-> "integer"]]]>>),
    PropertiesSchema(<<[key |-> "count", value |-> [type |-> "integer"]],
                       [key |-> "tag", value |-> [type |-> "integer"]]>>),
    [type |-> "nonsense"] }

\* The validator options a call is given.
AjvOptions == {Undefined, [allErrors |-> TRUE], [coerceTypes |-> FALSE]}

CallMatchSchema ==
  /\ args.op = "matchSchema"
  /\ call.made < MaxCalls
  /\ \E source \in Sources, schema \in Schemas, ajvOptions \in AjvOptions :
       LET done == matchSchema(heap, source, schema, errors, ajvOptions)
       IN /\ heap' = done.heap
          /\ errors' = done.errors
          /\ call' = [op |-> "matchSchema", made |-> call.made + 1,
                      source |-> source, schema |-> schema,
                      ajvOptions |-> ajvOptions]
                     @@ [f \in DOMAIN done \ {"heap", "errors"} |-> done[f]]
  /\ UNCHANGED args

InitMatch ==
  /\ args = [op |-> "matchSchema"]
  /\ heap \in SourceHeaps
  /\ errors = <<>>
  /\ call = [op |-> "none", made |-> 0]

NextMatch == CallMatchSchema

SpecMatch == InitMatch /\ [][NextMatch]_vars

(***************************************************************************)
(* Claims about getParameterMap and getParametersSchema (SpecParams).      *)
(***************************************************************************)
\* The positions of the listed parameters that have an `in` field equal to k.
ListedOfKind(ps, k) == {i \in DOMAIN ps : "in" \in DOMAIN ps[i] /\ ps[i].in = k}

\* Position i is the last one of kind k that carries its name.
IsLastOfKind(ps, k, i) ==
  /\ i \in ListedOfKind(ps, k)
  /\ \A j \in ListedOfKind(ps, k) : j > i => ps[j].name # ps[i].name

\* The elements of a sequence.
Range(seq) == {seq[i] : i \in DOMAIN seq}

\* A sequence without repeated elements.
NoDuplicates(seq) == \A i, j \in DOMAIN seq : seq[i] = seq[j] => i = j

\* C1: getParameterMap(operation, k) returns a map whose keys are exactly the
\* names of the listed parameters with `in` = k (a missing parameter list
\* counts as empty, a parameter with another or no `in` adds no key), one
\* entry per name, each name mapped to the last listed parameter of kind k
\* that carries it.
C1_ParameterMapLastWins ==
  call.op = "getParameterMap" =>
    LET ps == IF "parameters" \in DOMAIN call.operation
                THEN call.operation.parameters ELSE <<>>
        k == call.type
    IN /\ KeySet(call.ret) = {ps[i].name : i \in ListedOfKind(ps, k)}
       /\ NoDuplicates(MapKeys(call.ret))
       /\ \A i \in DOMAIN ps :
            IsLastOfKind(ps, k, i) => MapGet(call.ret, ps[i].name) = ps[i]

\* Two different parameters of the requested kind share a name and the map
\* holds the single entry of the later one.
C1_Witness ==
  /\ call.op = "getParameterMap"
  /\ "parameters" \in DOMAIN call.operation
  /\ Len(call.operation.parameters) = 2
  /\ LET ps == call.operation.parameters
     IN /\ ListedOfKind(ps, call.type) = {1, 2}
        /\ ps[1].name = ps[2].name
        /\ ps[1] # ps[2]
        /\ call.ret = <<[key |-> ps[2].name, value |-> ps[2]]>>

\* `required` of a parameter, absent counting as false.
IsRequired(parameter) == "required" \in DOMAIN parameter /\ parameter.required

\* C2: getParametersSchema(m) has type 'object' and additionalProperties
\* true, `properties` has exactly the keys of m, each mapped to the
\* parameter's schema ({} when it declares none), and `required` lists
\* exactly the names whose parameter is required, once each, in the
\* iteration order of m.
C2_ParametersSchemaShape ==
  call.op = "getParametersSchema" =>
    LET m == call.parameters
        r == call.ret
    IN /\ r.type = "object"
       /\ r.additionalProperties = TRUE
       /\ KeySet(r.properties) = KeySet(m)
       /\ NoDuplicates(MapKeys(r.properties))
       /\ \A key \in KeySet(m) :
            MapGet(r.properties, key) =
              IF "schema" \in DOMAIN MapGet(m, key)
                THEN MapGet(m, key).schema ELSE EmptyObject
       /\ r.required = SelectSeq(MapKeys(m), LAMBDA key : IsRequired(MapGet(m, key)))

\* A map given directly, with a required parameter that declares a schema
\* after a parameter that declares neither `required` nor `schema`.
C2_Witness ==
  /\ call.op = "getParametersSchema"
  /\ ~call.composed
  /\ Len(call.parameters) = 2
  /\ DOMAIN call.parameters[1].value \cap {"required", "schema"} = {}
  /\ IsRequired(call.parameters[2].value)
  /\ "schema" \in DOMAIN call.parameters[2].value
  /\ call.ret.required = <<call.parameters[2].key>>
  /\ MapGet(call.ret.properties, call.parameters[1].key) = EmptyObject

\* C10: the schema of getParametersSchema(getParameterMap(operation, k)) lists
\* no name twice in `required`, every listed name is a key of `properties`,
\* and a name is listed exactly when the last listed parameter of kind k
\* with that name is required.
C10_ComposedRequired ==
  (call.op = "getParametersSchema" /\ call.composed) =>
    LET ps == IF "parameters" \in DOMAIN call.operation
                THEN call.operation.parameters ELSE <<>>
        k == call.type
        required == call.ret.required
    IN /\ NoDuplicates(required)
       /\ Range(required) \subseteq KeySet(call.ret.properties)
       /\ \A name \in ParameterNames :
            name \in Range(required) <=>
              \E i \in DOMAIN ps :
                IsLastOfKind(ps, k, i) /\ ps[i].name = name /\ IsRequired(ps[i])

\* A name listed twice for the kind, first required and later not required,
\* is a property of the composed schema and is not in `required`.
C10_Witness ==
  /\ call.op = "getParametersSchema"
  /\ call.composed
  /\ "parameters" \in DOMAIN call.operation
  /\ Len(call.operation.parameters) = 2
  /\ LET ps == call.operation.parameters
     IN /\ ListedOfKind(ps, call.type) = {1, 2}
        /\ ps[1].name = ps[2].name
        /\ IsRequired(ps[1])
        /\ ~IsRequired(ps[2])
        /\ call.ret.required = <<>>
        /\ KeySet(call.ret.properties) = {ps[1].name}

(***************************************************************************)
(* Claims about the functional helpers (SpecFunc).                         *)
(***************************************************************************)
\* C6: inRange(min, max)(value) is true exactly when min <= value and
\* value < max; when min >= max it is false for every value.
C6_InRangeHalfOpen ==
  call.op = "inRange" =>
    /\ call.ret <=> (call.min <= call.value /\ call.value < call.max)
    /\ call.min >= call.max => ~call.ret

\* The lower bound of a non-empty range is accepted.
C6_Witness ==
  /\ call.op = "inRange"
  /\ call.min < call.max
  /\ call.value = call.min
  /\ call.ret

\* C7: transform(value, func) and oneOrMany(func)(value) return the same
\* result: for an array, the array of the same length whose i-th item is
\* func of the i-th item of value; for any other value, func(value) itself.
C7_TransformOneOrMany ==
  call.op \in {"transform", "oneOrMany"} =>
    /\ call.value.t = "array" =>
          /\ call.ret.t = "array"
          /\ Len(call.ret.items) = Len(call.value.items)
          /\ \A i \in 1..Len(call.value.items) :
               call.ret.items[i] = ApplyFunc(call.func, call.value.items[i])
    /\ call.value.t # "array" => call.ret = ApplyFunc(call.func, call.value)
    /\ transform(call.value, call.func) = oneOrMany(call.func)[call.value]

\* An array of three items went through the curried form.
C7_Witness ==
  /\ call.op = "oneOrMany"
  /\ call.func = "double"
  /\ call.value = Arr(<<Num(1), Num(2), Num(0)>>)
  /\ call.ret = Arr(<<Num(2), Num(4), Num(0)>>)

\* C8: a mapObject(obj, func) call returns a new object that has exactly the
\* keys of obj, each key k mapped to func(obj[k], k, obj), and leaves obj
\* (and every other object that existed) as it was.
C8_MapObjectFresh ==
  [][call'.op = "mapObject" =>
       LET obj == call'.obj.a
           ret == call'.ret
       IN /\ ret.t = "ref"
          /\ ret.a \notin DOMAIN heap
          /\ ret.a \in DOMAIN heap'
          /\ \A a \in DOMAIN heap : heap'[a] = heap[a]
          /\ KeySet(heap'[ret.a].fields) = KeySet(heap[obj].fields)
          /\ NoDuplicates(MapKeys(heap'[ret.a].fields))
          /\ \A key \in KeySet(heap[obj].fields) :
               MapGet(heap'[ret.a].fields, key) =
                 ApplyMapFunc(heap, call'.func, MapGet(heap[obj].fields, key),
                              key, call'.obj)]_vars

\* An object of two keys was mapped with a function that reads the object.
C8_Witness ==
  /\ call.op = "mapObject"
  /\ call.func = "sized"
  /\ heap[call.obj.a].fields =
       <<[key |-> "b", value |-> Num(2)], [key |-> "a", value |-> Num(1)]>>
  /\ heap[call.ret.a].fields =
       <<[key |-> "b", value |-> Num(4)], [key |-> "a", value |-> Num(3)]>>

\* C9: resolve(p) of a producer p invokes p once and nothing else, and ends
\* as that invocation ends (its result returned, its failure thrown);
\* resolve(v) of any other value returns v and invokes nothing.
C9_ResolveOnce ==
  call.op = "resolve" =>
    IF call.resolvable.t = "function"
      THEN /\ call.invoked = <<call.resolvable.f>>
           /\ call.outcome = Invoke(call.resolvable.f).outcome
           /\ call.outcome = "returned" => call.ret = Invoke(call.resolvable.f).ret
           /\ call.outcome = "threw" => call.thrown = Invoke(call.resolvable.f).thrown
      ELSE /\ call.outcome = "returned"
           /\ call.ret = call.resolvable
           /\ call.invoked = <<>>

\* A producer that returns another producer was invoked once, and the
\* producer it returned was handed back uninvoked.
C9_Witness ==
  /\ call.op = "resolve"
  /\ call.resolvable = Fn("producer")
  /\ call.invoked = <<"producer">>
  /\ call.outcome = "returned"
  /\ call.ret = Fn("five")

(***************************************************************************)
(* Claims about matchSchema (SpecMatch).                                   *)
(***************************************************************************)
\* C3: the errors array is append-only: over every matchSchema call its
\* content before the call is a prefix of its content after it, the entries
\* added are the call's validation errors in the engine's order, and a call
\* whose validation reports no errors leaves the array as it was.
C3_ErrorsAppendOnly ==
  [][call'.op = "matchSchema" =>
       /\ Len(errors') >= Len(errors)
       /\ SubSeq(errors', 1, Len(errors)) = errors
       /\ SubSeq(errors', Len(errors) + 1, Len(errors')) = call'.validateErrors
       /\ call'.validateErrors = <<>> => errors' = errors]_vars

\* A second call added its errors behind those of the first call.
C3_Witness ==
  /\ call.op = "matchSchema"
  /\ call.made = 2
  /\ call.validateErrors # <<>>
  /\ Len(errors) > Len(call.validateErrors)

\* The source of the last call has JSON text.
HasJsonText(h, source) == JsonStringify(h, source) # NoText

\* C4 as stated: no matchSchema call ends by throwing.
C4_NeverThrows ==
  call.op = "matchSchema" => call.outcome = "returned"

\* C4, amended: a matchSchema call throws exactly when its source has no
\* JSON text or the engine cannot compile its schema, and then nothing is
\* added to the errors array; every other call returns a value, whether or
\* not validation failed, with the failures of validation in validate.errors.
C4_ThrowsOnlyWithoutTextOrValidator ==
  call.op = "matchSchema" =>
    /\ call.outcome \in {"returned", "threw"}
    /\ call.outcome = "threw" <=>
         (~HasJsonText(heap, call.source) \/ ~SchemaCompiles(call.schema))
    /\ call.outcome = "threw" => call.validateErrors = <<>>
    /\ call.outcome = "returned" =>
         /\ "ret" \in DOMAIN call
         /\ call.ret # Undefined

\* A call whose source failed validation returned its copy.
C4_Witness ==
  /\ call.op = "matchSchema"
  /\ call.outcome = "returned"
  /\ call.validateErrors # <<>>
  /\ call.ret.t = "ref"

\* The addresses of the objects and arrays reachable from value v in heap h.
RECURSIVE Reachable(_, _)
Reachable(h, v) ==
  IF v.t # "ref"
    THEN {}
    ELSE LET o == h[v.a]
             children == IF o.kind = "array"
                           THEN {o.items[i] : i \in DOMAIN o.items}
                           ELSE {o.fields[i].value : i \in DOMAIN o.fields}
         IN {v.a} \cup UNION {Reachable(h, child) : child \in children}

\* C5: a matchSchema call leaves the source and everything reachable from it
\* as it was, and the object it returns shares no object or array with the
\* source.
C5_SourceUntouched ==
  [][call'.op = "matchSchema" =>
       /\ \A a \in Reachable(heap, call'.source) :
            a \in DOMAIN heap' /\ heap'[a] = heap[a]
       /\ call'.outcome = "returned" =>
            Reachable(heap', call'.ret) \cap Reachable(heap, call'.source) = {}]_vars

\* A source holding a nested array was validated without errors and the
\* copy returned was coerced: it no longer has the JSON text of the source.
C5_Witness ==
  /\ call.op = "matchSchema"
  /\ call.outcome = "returned"
  /\ call.validateErrors = <<>>
  /\ call.source = Ref(1)
  /\ Cardinality(Reachable(heap, call.source)) = 2
  /\ JsonStringify(heap, call.ret) # JsonStringify(heap, call.source)

=============================================================================
